---- MODULE Spec2Model ----
(***************************************************************************)
(* Recommendation pipeline of the places server:                           *)
(*   - calculateRelevanceScore      (shared/src/utils.ts)                  *)
(*   - GeminiService.rankPlaces / parseAIResponse / getDefaultActions /    *)
(*     generateActionSuggestions    (server/src/services/GeminiService.ts) *)
(*   - PlacesController.searchPlaces (server/src/controllers)              *)
(*                                                                         *)
(* Scores are kept in thousandths (1000 = 1.0).  An optional field of a    *)
(* JavaScript object is a sequence of length 0 (undefined) or 1.           *)
(* A JavaScript string that the code inspects character by character is a  *)
(* sequence of one-character strings.                                      *)
(***************************************************************************)
EXTENDS Integers, Sequences, FiniteSets, TLC

VARIABLES
    scPlace, scPrefs, scScore,      \* scorer: arguments and result
    rkPc,                           \* rankPlaces: "idle", "awaiting", "returned", "threw"
    rkPlaces, rkPrefs,              \* rankPlaces: arguments places, userPreferences
    rkText,                         \* text returned by model.generateContent
    rkBranch,                       \* parseAIResponse: "none", "try" (model path), "catch" (fallback)
    rkOut,                          \* AIRankingResponse returned by rankPlaces
    asPc,                           \* generateActionSuggestions: "idle", "awaiting", "returned"
    asPlace,                        \* generateActionSuggestions: argument place
    asText,                         \* text returned by model.generateContent
    asBranch,                       \* "none", "model" (parsed.actions) or "default" (getDefaultActions)
    asOut,                          \* value returned by generateActionSuggestions
    rqPc,                           \* searchPlaces: the await the handler is suspended at
    rqReq,                          \* the request (query parameters and user-id header)
    rqUserPreferences,              \* userPreferences
    rqUserHistory,                  \* userHistory
    rqPlaces,                       \* places returned by placesService.searchPlaces
    rqModelResult,                  \* what the ranking model call delivered
    rqAiResponse,                   \* aiResponse
    rqPending,                      \* indexes of topPlaces whose action call is in flight
    rqActions,                      \* index of topPlaces -> actions, once generated
    rqCalls,                        \* number of calls made to each collaborator
    rqLogged,                       \* arguments of the logSearch call
    rqResponse,                     \* what was sent on res
    rqSettled,                      \* how getUserById, getUserFeedback, searchPlaces, logSearch settled
    rqSuggestCalls,                 \* fsq_id of each generateActionSuggestions call, in call order
    rqActionResults,                \* what the model delivered to the call of each top place
    rqOutOfOrder,                   \* a call settled while an earlier one was still pending
    rqWaited,                       \* time units spent so far awaiting the ranking model call
    afPc,                           \* analyzeUserFeedback: "idle", "awaiting", "returned"
    afFeedback,                     \* analyzeUserFeedback: argument feedback
    afText,                         \* text returned by model.generateContent
    afModelCalls,                   \* number of model.generateContent calls made
    afOut,                          \* UserPreferences returned by analyzeUserFeedback
    diQuery,                        \* determineIntent: argument query
    diIntent                        \* determineIntent: return value

scoreVars  == <<scPlace, scPrefs, scScore>>
rankVars   == <<rkPc, rkPlaces, rkPrefs, rkText, rkBranch, rkOut>>
actionVars == <<asPc, asPlace, asText, asBranch, asOut>>
requestVars == <<rqPc, rqReq, rqUserPreferences, rqUserHistory, rqPlaces,
                 rqModelResult, rqAiResponse, rqPending, rqActions, rqCalls,
                 rqLogged, rqResponse,
                rqSettled, rqSuggestCalls, rqActionResults, rqOutOfOrder, rqWaited>>
feedbackVars == <<afPc, afFeedback, afText, afModelCalls, afOut>>
intentVars == <<diQuery, diIntent>>
vars       == <<scPlace, scPrefs, scScore,
                rkPc, rkPlaces, rkPrefs, rkText, rkBranch, rkOut,
                asPc, asPlace, asText, asBranch, asOut,
                rqPc, rqReq, rqUserPreferences, rqUserHistory, rqPlaces,
                rqModelResult, rqAiResponse, rqPending, rqActions, rqCalls,
                rqLogged, rqResponse,
                rqSettled, rqSuggestCalls, rqActionResults, rqOutOfOrder, rqWaited,
                afPc, afFeedback, afText, afModelCalls, afOut,
                diQuery, diIntent>>

----------------------------------------------------------------------------
(* Bounds *)

MaxCats     == 2    \* categories of one place
MaxPrefCats == 2    \* entries of preferences.categories
MaxPlaces   == 2    \* candidates of one ranking call
MaxEntries  == 2    \* entries of the model's rankedPlaces array
MaxActions  == 2    \* entries of the model's actions array
MaxFetched  == 6    \* places the candidate source returns for one request
MaxFeedback == 2    \* items of the feedback list handed to analyzeUserFeedback
MaxWait     == 2    \* time units the ranking model call is observed not returning
MaxPieces   == 2    \* word pieces a query given to determineIntent is made of

----------------------------------------------------------------------------
(* Generic helpers *)

Undefined == << >>
Some(v)   == << v >>
Has(o)    == Len(o) > 0
Val(o)    == o[1]

\* JavaScript truthiness of an optional string
Truthy(o) == Has(o) /\ Val(o) # ""

SeqsUpTo(S, n) == UNION { [1..k -> S] : k \in 0..n }

Max(a, b) == IF a >= b THEN a ELSE b
Min(a, b) == IF a <= b THEN a ELSE b

----------------------------------------------------------------------------
(* Strings *)

ToLowerChar(c) ==
    CASE c = "A" -> "a"
      [] c = "B" -> "b"
      [] c = "C" -> "c"
      [] c = "D" -> "d"
      [] c = "E" -> "e"
      [] c = "F" -> "f"
      [] c = "G" -> "g"
      [] c = "H" -> "h"
      [] c = "I" -> "i"
      [] c = "J" -> "j"
      [] c = "K" -> "k"
      [] c = "L" -> "l"
      [] c = "M" -> "m"
      [] c = "N" -> "n"
      [] c = "O" -> "o"
      [] c = "P" -> "p"
      [] c = "Q" -> "q"
      [] c = "R" -> "r"
      [] c = "S" -> "s"
      [] c = "T" -> "t"
      [] c = "U" -> "u"
      [] c = "V" -> "v"
      [] c = "W" -> "w"
      [] c = "X" -> "x"
      [] c = "Y" -> "y"
      [] c = "Z" -> "z"
      [] OTHER   -> c

toLowerCase(s) == [i \in 1..Len(s) |-> ToLowerChar(s[i])]

includes(s, t) ==
    \E i \in 0..(Len(s) - Len(t)) : SubSeq(s, i + 1, i + Len(t)) = t

StrCoffee     == <<"C", "o", "f", "f", "e", "e">>
StrCoffeeLow  == <<"c", "o", "f", "f", "e", "e">>
StrCoffeeShop == <<"C", "o", "f", "f", "e", "e", " ", "S", "h", "o", "p">>
StrFineDining == <<"F", "i", "n", "e", " ", "D", "i", "n", "i", "n", "g">>
StrBar        == <<"B", "a", "r">>

----------------------------------------------------------------------------
(* Places and preferences *)

Category(n) == [name |-> n]

MkPlace(id, d, r, p, cats, tel, web) ==
    [fsq_id |-> id, distance |-> d, rating |-> r, price |-> p,
     categories |-> cats, tel |-> tel, website |-> web]

MkPrefs(cats, lo, hi, maxd) ==
    [categories |-> cats, priceRange |-> <<lo, hi>>, maxDistance |-> maxd]

\* the two candidates and the preferences of the worked example
PlaceA == MkPlace("A", Some(100), Some(8), Some(2), <<Category(StrCoffee)>>,
                  Some("tel"), Some("web"))
PlaceB == MkPlace("B", Some(900), Some(9), Some(4), <<Category(StrFineDining)>>,
                  Undefined, Some("web"))
PlaceC == MkPlace("C", Undefined, Undefined, Undefined, << >>,
                  Some("tel"), Undefined)
PrefsExample == MkPrefs(<<StrCoffee>>, 1, 2, 1000)
PrefsDefault == MkPrefs(<< >>, 1, 4, 1000)

----------------------------------------------------------------------------
(* calculateRelevanceScore, shared/src/utils.ts *)

\* Math.max(0, 1 - distance / maxDistance) * 0.3, only when distance is defined
DistanceFactor(place, preferences) ==
    IF place.distance # Undefined
    THEN (Max(0, 1000 - ((1000 * Val(place.distance)) \div preferences.maxDistance)) * 3) \div 10
    ELSE 0

\* 0.2 when the (truthy) price lies in [minPrice, maxPrice]
PriceFactor(place, preferences) ==
    IF Has(place.price) /\ Val(place.price) # 0
       /\ Val(place.price) >= preferences.priceRange[1]
       /\ Val(place.price) <= preferences.priceRange[2]
    THEN 200
    ELSE 0

\* place.categories.filter(cat => preferences.categories.some(...))
CategoryMatches(cat, preferences) ==
    \E j \in 1..Len(preferences.categories) :
        includes(toLowerCase(cat.name), toLowerCase(preferences.categories[j]))

matchingCategories(place, preferences) ==
    Cardinality({ i \in 1..Len(place.categories) :
                    CategoryMatches(place.categories[i], preferences) })

\* (matchingCategories.length / preferences.categories.length) * 0.3
CategoryFactor(place, preferences) ==
    IF Len(preferences.categories) > 0
    THEN (300 * matchingCategories(place, preferences)) \div Len(preferences.categories)
    ELSE 0

\* (rating / 10) * 0.2, only when rating is truthy
RatingFactor(place) ==
    IF Has(place.rating) /\ Val(place.rating) # 0
    THEN (Val(place.rating) * 200) \div 10
    ELSE 0

RawScore(place, preferences) ==
    DistanceFactor(place, preferences) + PriceFactor(place, preferences)
      + CategoryFactor(place, preferences) + RatingFactor(place)

calculateRelevanceScore_NoClamp(place, preferences) ==
    RawScore(place, preferences)

calculateRelevanceScore_NoRating(place, preferences) ==
    Min(1000, DistanceFactor(place, preferences) + PriceFactor(place, preferences)
                + CategoryFactor(place, preferences))

calculateRelevanceScore(place, preferences) ==
    Min(1000, RawScore(place, preferences))

----------------------------------------------------------------------------
(* Scorer specification: the arguments are drawn in Init, Score applies    *)
(* the function.  Distances, maxDistance and the list lengths are chosen   *)
(* so that every quotient of the score is exact in thousandths.            *)

ScoreDistances == {Undefined, Some(0), Some(100), Some(900), Some(1500)}
ScoreRatings   == {Undefined, Some(0), Some(8), Some(9), Some(10)}
ScorePrices    == {Undefined, Some(1), Some(2), Some(4)}
ScoreCatNames  == {StrCoffee, StrCoffeeShop, StrFineDining}
ScorePrefNames == {StrCoffee, StrCoffeeLow, StrBar}

ScorePlaces ==
    { MkPlace("P", d, r, p, cats, Undefined, Undefined) :
        d \in ScoreDistances, r \in ScoreRatings, p \in ScorePrices,
        cats \in SeqsUpTo({Category(n) : n \in ScoreCatNames}, MaxCats) }

\* well-formed preferences: maxDistance > 0, 1 <= min <= max <= 4
ScorePrefs ==
    { MkPrefs(cats, pr[1], pr[2], maxd) :
        cats \in { c \in SeqsUpTo(ScorePrefNames, MaxPrefCats) :
                     \A i, j \in 1..Len(c) : c[i] = c[j] => i = j },
        pr \in {<<1, 2>>, <<1, 4>>, <<3, 3>>},
        maxd \in {500, 1000} }

InitScoreVars ==
    /\ scPlace \in ScorePlaces
    /\ scPrefs \in ScorePrefs
    /\ scScore = Undefined

IdleScoreVars ==
    /\ scPlace = PlaceA
    /\ scPrefs = PrefsExample
    /\ scScore = Undefined

----------------------------------------------------------------------------
(* Model output text.  A text is a sequence of tokens: a newline, a fence   *)
(* marker, a run of prose, or one complete JSON document.                   *)

TokNewline   == [t |-> "newline"]       \* "\n"
TokFenceJson == [t |-> "fence_json"]    \* "```json"
TokFence     == [t |-> "fence"]         \* "```"
TokProse     == [t |-> "prose"]         \* any text that is not JSON
TokJson(doc) == [t |-> "json", doc |-> doc]

\* one element of rankedPlaces as the model wrote it
MkEntry(id, score, tags, busy) ==
    [fsq_id |-> id, relevanceScore |-> score, aiReasoning |-> Some("because"),
     recommendationTags |-> tags, estimatedBusyTime |-> busy]

DocNull == [kind |-> "null"]
DocObject(rp, reasoning, confidence) ==
    [kind |-> "object", rankedPlaces |-> rp, reasoning |-> reasoning,
     confidence |-> confidence]
RpAbsent     == [kind |-> "absent"]
RpNotArray   == [kind |-> "string"]
RpArray(items) == [kind |-> "array", items |-> items]

RECURSIVE trimStart(_)
trimStart(text) ==
    IF text # << >> /\ Head(text).t = "newline" THEN trimStart(Tail(text)) ELSE text

RECURSIVE trimEnd(_)
trimEnd(text) ==
    IF text # << >> /\ text[Len(text)].t = "newline"
    THEN trimEnd(SubSeq(text, 1, Len(text) - 1))
    ELSE text

trim(text) == trimEnd(trimStart(text))

startsWith(text, tok) == text # << >> /\ Head(text).t = tok

\* .replace(/```json\n?/, '') resp. .replace(/```\n?/, ''): the first fence and
\* one newline after it
replaceOpeningFence(text) ==
    IF Len(text) >= 2 /\ text[2].t = "newline"
    THEN SubSeq(text, 3, Len(text))
    ELSE Tail(text)

\* .replace(/\n?```$/, ''): a plain fence at the very end and one newline before it
replaceClosingFence(text) ==
    IF text # << >> /\ text[Len(text)].t = "fence"
    THEN IF Len(text) >= 2 /\ text[Len(text) - 1].t = "newline"
         THEN SubSeq(text, 1, Len(text) - 2)
         ELSE SubSeq(text, 1, Len(text) - 1)
    ELSE text

stripCodeBlock(response) ==
    LET jsonText == trim(response)
    IN  IF startsWith(jsonText, "fence_json") \/ startsWith(jsonText, "fence")
        THEN replaceClosingFence(replaceOpeningFence(jsonText))
        ELSE jsonText

\* JSON.parse: one document, white space allowed around it, anything else is
\* a SyntaxError
JSONparse(jsonText) ==
    LET body == trim(jsonText)
    IN  IF Len(body) = 1 /\ body[1].t = "json"
        THEN [ok |-> TRUE, value |-> body[1].doc]
        ELSE [ok |-> FALSE]

----------------------------------------------------------------------------
(* GeminiService.parseAIResponse *)

MkRanked(place, score, reasoning, tags, busy) ==
    [fsq_id |-> place.fsq_id, distance |-> place.distance, rating |-> place.rating,
     price |-> place.price, categories |-> place.categories, tel |-> place.tel,
     website |-> place.website,
     relevanceScore |-> score, aiReasoning |-> reasoning,
     recommendationTags |-> tags, estimatedBusyTime |-> busy]

MkAIResponse(ranked, reasoning, confidence) ==
    [rankedPlaces |-> ranked, reasoning |-> reasoning, confidence |-> confidence,
     suggestedActions |-> << >>]

\* originalPlaces.find(p => p.fsq_id === rankedPlace.fsq_id)
findIndex(originalPlaces, entry) ==
    LET hits == { i \in 1..Len(originalPlaces) :
                    entry.fsq_id = Some(originalPlaces[i].fsq_id) }
    IN  IF hits = {} THEN 0 ELSE CHOOSE i \in hits : \A j \in hits : i <= j

\* the callback of parsed.rankedPlaces.map
mergeEntry(originalPlaces, entry) ==
    MkRanked(originalPlaces[findIndex(originalPlaces, entry)],
             entry.relevanceScore,
             entry.aiReasoning,
             IF Has(entry.recommendationTags) THEN Val(entry.recommendationTags) ELSE << >>,
             IF Truthy(entry.estimatedBusyTime) THEN Val(entry.estimatedBusyTime) ELSE "medium")

\* rankedPlaces.sort((a, b) => b.relevanceScore - a.relevanceScore), a stable sort
RECURSIVE insertDescending(_, _)
insertDescending(sorted, x) ==
    IF sorted = << >> THEN << x >>
    ELSE IF Val(Head(sorted).relevanceScore) >= Val(x.relevanceScore)
         THEN << Head(sorted) >> \o insertDescending(Tail(sorted), x)
         ELSE << x >> \o sorted

RECURSIVE sortDescending(_)
sortDescending(list) ==
    IF list = << >> THEN << >>
    ELSE insertDescending(sortDescending(SubSeq(list, 1, Len(list) - 1)), list[Len(list)])

Reorderings(list) ==
    LET n == Len(list)
    IN  { [i \in 1..n |-> list[p[i]]] :
            p \in { q \in [1..n -> 1..n] : \A i, j \in 1..n : q[i] = q[j] => i = j } }

\* The orders Array.prototype.sort may leave.  With a missing relevanceScore
\* the comparator returns NaN, it is not a consistent comparator, and the
\* order is implementation-defined.
sortOutcomes(list) ==
    IF \A i \in 1..Len(list) : Has(list[i].relevanceScore)
    THEN { sortDescending(list) }
    ELSE Reorderings(list)

\* the catch block
fallbackRanking(originalPlaces) ==
    MkAIResponse(
        [i \in 1..Len(originalPlaces) |->
            MkRanked(originalPlaces[i], Some(Max(100, 1000 - ((i - 1) * 100))),
                     Some("Fallback ranking due to AI parsing error"),
                     <<"general">>, "medium")],
        Some("Fallback ranking applied due to AI response parsing error"),
        Some(300))

\* TRUE when the try block runs to its return
tryCompletes(response, originalPlaces) ==
    LET parsed == JSONparse(stripCodeBlock(response))
    IN  /\ parsed.ok
        /\ parsed.value.kind = "object"
        /\ parsed.value.rankedPlaces.kind = "array"
        /\ \A i \in 1..Len(parsed.value.rankedPlaces.items) :
              findIndex(originalPlaces, parsed.value.rankedPlaces.items[i]) # 0

\* the set of results parseAIResponse may return: [branch, value]
parseAIResponse(response, originalPlaces) ==
    IF tryCompletes(response, originalPlaces)
    THEN LET parsed == JSONparse(stripCodeBlock(response)).value
             mapped == [i \in 1..Len(parsed.rankedPlaces.items) |->
                           mergeEntry(originalPlaces, parsed.rankedPlaces.items[i])]
         IN  { [branch |-> "try",
                value |-> MkAIResponse(sorted, parsed.reasoning, parsed.confidence)] :
                 sorted \in sortOutcomes(mapped) }
    ELSE { [branch |-> "catch", value |-> fallbackRanking(originalPlaces)] }

----------------------------------------------------------------------------
(* GeminiService.rankPlaces *)

\* what model.generateContent(prompt) / response.text() delivers
ModelThrows       == [kind |-> "throw"]
ModelReturns(txt) == [kind |-> "text", text |-> txt]

\* the set of outcomes of rankPlaces: [status, branch, value]
rankPlaces(places, modelResult) ==
    IF modelResult.kind = "throw" \/ modelResult.text = << >>
    THEN { [status |-> "threw", branch |-> "none", value |-> Undefined] }
    ELSE { [status |-> "returned", branch |-> r.branch, value |-> Some(r.value)] :
             r \in parseAIResponse(modelResult.text, places) }

----------------------------------------------------------------------------
(* GeminiService.getDefaultActions and generateActionSuggestions *)

MkAction(type, label, url, priority) ==
    [type |-> type, label |-> label, url |-> url, priority |-> priority,
     availability |-> "available"]

getDefaultActions_CallWithoutPhoneCheck(place) ==
    << MkAction("navigate", "Get Directions", Undefined, 5) >>
    \o << MkAction("call", "Call", place.tel, 4) >>
    \o (IF Truthy(place.website)
        THEN << MkAction("visit_website", "Visit Website", place.website, 3) >>
        ELSE << >>)
    \o << MkAction("save", "Save to Favorites", Undefined, 2) >>

getDefaultActions(place) ==
    << MkAction("navigate", "Get Directions", Undefined, 5) >>
    \o (IF Truthy(place.tel)
        THEN << MkAction("call", "Call", place.tel, 4) >>
        ELSE << >>)
    \o (IF Truthy(place.website)
        THEN << MkAction("visit_website", "Visit Website", place.website, 3) >>
        ELSE << >>)
    \o << MkAction("save", "Save to Favorites", Undefined, 2) >>

\* a JSON value handed back unchanged: an array or something else
JsArray(items) == [kind |-> "array", items |-> items]
JsString       == [kind |-> "string"]

DocActions(actions) == [kind |-> "object", actions |-> actions]
ActionsAbsent == [kind |-> "absent"]

\* the result of generateActionSuggestions: [branch, value]
generateActionSuggestions(place, modelResult) ==
    LET default == [branch |-> "default", value |-> JsArray(getDefaultActions(place))]
    IN  IF modelResult.kind = "throw" \/ modelResult.text = << >>
        THEN default
        ELSE LET parsed == JSONparse(modelResult.text)
             IN  IF ~parsed.ok \/ parsed.value.kind = "null"
                 THEN default
                 ELSE IF parsed.value.actions.kind = "absent"
                      THEN default
                      ELSE [branch |-> "model", value |-> parsed.value.actions]

----------------------------------------------------------------------------
(* Inputs of the ranking specification *)

PlacePool == {PlaceA, PlaceB, PlaceC}

CandidateLists ==
    { s \in SeqsUpTo(PlacePool, MaxPlaces) :
        /\ Len(s) >= 1
        /\ \A i, j \in 1..Len(s) : s[i].fsq_id = s[j].fsq_id => i = j }

ModelEntries ==
    { MkEntry(id, sc, Some(<<"cozy">>), Some("low")) :
        id \in {Some("A"), Some("B"), Some("Z"), Undefined},
        sc \in {Some(900), Some(500)} }
    \cup { MkEntry(Some("A"), Undefined, Undefined, Undefined),
           MkEntry(Some("B"), Some(1500), Undefined, Some("packed")) }

ModelDocs ==
    { DocObject(RpArray(items), Some("overall"), Some(850)) :
        items \in SeqsUpTo(ModelEntries, MaxEntries) }
    \cup { DocNull,
           DocObject(RpAbsent, Some("overall"), Some(850)),
           DocObject(RpNotArray, Undefined, Undefined),
           DocObject(RpArray(<<MkEntry(Some("A"), Some(900), Undefined, Undefined)>>),
                     Undefined, Some(1200)) }

Wrappings(doc) ==
    { << TokJson(doc) >>,
      << TokNewline, TokJson(doc), TokNewline >>,
      << TokFenceJson, TokNewline, TokJson(doc), TokNewline, TokFence >>,
      << TokFence, TokNewline, TokJson(doc), TokNewline, TokFence >>,
      << TokFenceJson, TokJson(doc) >>,
      << TokProse, TokJson(doc) >>,
      << TokFenceJson, TokNewline, TokJson(doc), TokNewline, TokFence, TokNewline, TokProse >> }

ModelTexts ==
    { << >>, << TokNewline >>, << TokProse >> }
    \cup UNION { Wrappings(doc) : doc \in ModelDocs }

----------------------------------------------------------------------------
(* Actions *)

Score ==
    /\ scScore = Undefined
    /\ scScore' = Some(calculateRelevanceScore(scPlace, scPrefs))
    /\ UNCHANGED <<scPlace, scPrefs, rankVars, actionVars, requestVars, feedbackVars, intentVars>>

\* rankPlaces is entered and awaits model.generateContent
RankPlacesCall ==
    /\ rkPc = "idle"
    /\ \E places \in CandidateLists, prefs \in {Undefined, Some(PrefsExample)} :
          /\ rkPlaces' = places
          /\ rkPrefs' = prefs
    /\ rkPc' = "awaiting"
    /\ UNCHANGED <<rkText, rkBranch, rkOut, scoreVars, actionVars, requestVars, feedbackVars, intentVars>>

\* the model call returns a text; rankPlaces runs to its end
GenerateContentReturns ==
    /\ rkPc = "awaiting"
    /\ \E txt \in ModelTexts :
          \E out \in rankPlaces(rkPlaces, ModelReturns(txt)) :
              /\ rkText' = Some(txt)
              /\ rkPc' = out.status
              /\ rkBranch' = out.branch
              /\ rkOut' = out.value
    /\ UNCHANGED <<rkPlaces, rkPrefs, scoreVars, actionVars, requestVars, feedbackVars, intentVars>>

\* the model call rejects; rankPlaces runs to its end
GenerateContentThrows ==
    /\ rkPc = "awaiting"
    /\ \E out \in rankPlaces(rkPlaces, ModelThrows) :
          /\ rkPc' = out.status
          /\ rkBranch' = out.branch
          /\ rkOut' = out.value
    /\ UNCHANGED <<rkText, rkPlaces, rkPrefs, scoreVars, actionVars, requestVars, feedbackVars, intentVars>>

----------------------------------------------------------------------------
(* Inputs and actions of the action-suggestion specification *)

OptStrings(v) == {Undefined, Some(""), Some(v)}

ActionPlaces ==
    { MkPlace("P", Some(100), Some(8), Some(2), <<Category(StrCoffee)>>, tel, web) :
        tel \in OptStrings("+15550100"), web \in OptStrings("https://example.org") }

ModelActions ==
    { MkAction(type, "label", Undefined, prio) :
        type \in {"navigate", "book", "save", "teleport"}, prio \in {5, 2} }

ActionDocs ==
    { DocActions(JsArray(items)) : items \in SeqsUpTo(ModelActions, MaxActions) }
    \cup { DocNull, DocActions(ActionsAbsent), DocActions(JsString) }

ActionTexts ==
    { << >>, << TokProse >> }
    \cup { << TokJson(doc) >> : doc \in ActionDocs }
    \cup { << TokFenceJson, TokNewline, TokJson(doc), TokNewline, TokFence >> : doc \in ActionDocs }

\* generateActionSuggestions is entered and awaits model.generateContent
SuggestCall ==
    /\ asPc = "idle"
    /\ \E place \in ActionPlaces : asPlace' = place
    /\ asPc' = "awaiting"
    /\ UNCHANGED <<asText, asBranch, asOut, scoreVars, rankVars, requestVars, feedbackVars, intentVars>>

\* the model call returns a text; generateActionSuggestions runs to its end
SuggestModelReturns ==
    /\ asPc = "awaiting"
    /\ \E txt \in ActionTexts :
          LET out == generateActionSuggestions(asPlace, ModelReturns(txt))
          IN  /\ asText' = Some(txt)
              /\ asBranch' = out.branch
              /\ asOut' = Some(out.value)
    /\ asPc' = "returned"
    /\ UNCHANGED <<asPlace, scoreVars, rankVars, requestVars, feedbackVars, intentVars>>

\* the model call rejects; generateActionSuggestions runs to its end
SuggestModelThrows ==
    /\ asPc = "awaiting"
    /\ LET out == generateActionSuggestions(asPlace, ModelThrows)
       IN  /\ asBranch' = out.branch
           /\ asOut' = Some(out.value)
    /\ asPc' = "returned"
    /\ UNCHANGED <<asPlace, asText, scoreVars, rankVars, requestVars, feedbackVars, intentVars>>

IdleActionVars ==
    /\ asPc = "idle"
    /\ asPlace = PlaceA
    /\ asText = Undefined
    /\ asBranch = "none"
    /\ asOut = Undefined

----------------------------------------------------------------------------
(* validateSearchParams, server/src/utils/validation.ts *)

\* a JavaScript number as parseInt / parseFloat deliver it
Num(n) == [nan |-> FALSE, n |-> n]
NaN    == [nan |-> TRUE, n |-> 0]

\* x < n and x > n are both false for NaN
Less(x, n)    == ~x.nan /\ x.n < n
Greater(x, n) == ~x.nan /\ x.n > n

validateSearchParams(params) ==
    LET errors ==
            (IF params.query = Undefined
             THEN <<"Query parameter is required">> ELSE << >>)
         \o (IF params.lat.nan \/ Less(params.lat, -90) \/ Greater(params.lat, 90)
             THEN <<"Invalid latitude value">> ELSE << >>)
         \o (IF params.lng.nan \/ Less(params.lng, -180) \/ Greater(params.lng, 180)
             THEN <<"Invalid longitude value">> ELSE << >>)
         \o (IF Has(params.radius)
                /\ (Less(Val(params.radius), 0) \/ Greater(Val(params.radius), 100000))
             THEN <<"Radius must be between 0 and 100000 meters">> ELSE << >>)
         \o (IF Less(params.limit, 1) \/ Greater(params.limit, 50)
             THEN <<"Limit must be between 1 and 50">> ELSE << >>)
    IN  [isValid |-> errors = << >>, errors |-> errors]

----------------------------------------------------------------------------
(* PlacesController.searchPlaces *)

TopK == 5    \* aiResponse.rankedPlaces.slice(0, 5)

\* generateSearchSuggestions
generateSearchSuggestions(searchParams) ==
    << "Try expanding your search radius",
       "Remove specific category filters",
       "Search for broader terms",
       "Check your location is correct" >>
    \o (IF Truthy(searchParams.categories)
        THEN <<"Try searching without category filters">> ELSE << >>)
    \o (IF Has(searchParams.radius) /\ ~Val(searchParams.radius).nan
           /\ Val(searchParams.radius).n # 0 /\ Val(searchParams.radius).n < 1000
        THEN <<"Increase search radius to find more options">> ELSE << >>)

\* dayOfWeek: new Date().getDay(); groupSize: parseInt(req.query.groupSize) || 1;
\* urgency: req.query.urgency || 'medium'
buildUserContext(req) ==
    [dayOfWeek |-> req.dayOfWeek,
     groupSize |-> IF Has(req.groupSize) /\ ~Val(req.groupSize).nan /\ Val(req.groupSize).n # 0
                   THEN Val(req.groupSize).n ELSE 1,
     urgency   |-> IF Truthy(req.urgency) THEN Val(req.urgency) ELSE "medium"]

\* the request as the handler reads it: radius and limit after parseInt,
\* lat and lng as validateSearchParams' parseFloat sees them, and the day
\* new Date().getDay() gives while the handler runs
MkRequest(query, lat, lng, radius, limit, categories, userId, groupSize, urgency, dayOfWeek) ==
    [query |-> query, lat |-> lat, lng |-> lng, radius |-> radius, limit |-> limit,
     categories |-> categories, userId |-> userId, groupSize |-> groupSize,
     urgency |-> urgency, dayOfWeek |-> dayOfWeek]

BaseRequest ==
    MkRequest(Some("coffee"), Num(45), Num(10), Undefined, Num(20), Undefined,
              Undefined, Undefined, Undefined, 3)

Requests ==
    { BaseRequest,
      [BaseRequest EXCEPT !.userId = Some("u1"), !.dayOfWeek = 6],
      [BaseRequest EXCEPT !.userId = Some("u1"), !.radius = Some(Num(500)),
                          !.categories = Some("13032")],
      [BaseRequest EXCEPT !.radius = Some(NaN)],
      [BaseRequest EXCEPT !.limit = NaN],
      [BaseRequest EXCEPT !.groupSize = Some(Num(-2)), !.urgency = Some("asap"),
                          !.dayOfWeek = 0],
      [BaseRequest EXCEPT !.query = Undefined],
      [BaseRequest EXCEPT !.lat = Num(95)],
      [BaseRequest EXCEPT !.lat = NaN, !.lng = Num(-200)],
      [BaseRequest EXCEPT !.radius = Some(Num(200000))],
      [BaseRequest EXCEPT !.radius = Some(Num(-1)), !.limit = Num(0)],
      [BaseRequest EXCEPT !.limit = Num(60), !.userId = Some("u1")] }

IdNames == <<"A", "B", "C", "D", "E", "F", "G", "H">>

\* the k-th place of the candidate source
FetchedPlace(k) ==
    MkPlace(IdNames[k], Some(100 * k), Some(8), Some(2), <<Category(StrCoffee)>>,
            IF k % 2 = 1 THEN Some("+15550100") ELSE Undefined,
            IF k % 3 = 0 THEN Undefined ELSE Some("https://example.org"))

FetchedLists == { [k \in 1..n |-> FetchedPlace(k)] : n \in 0..MaxFetched }

\* a well-formed model ranking of the places: all of them, last place first
ReverseRanking(places) ==
    LET n == Len(places)
    IN  DocObject(RpArray([i \in 1..n |->
                              MkEntry(Some(places[n + 1 - i].fsq_id),
                                      Some(1000 - 50 * i), Some(<<"cozy">>), Some("low"))]),
                  Some("overall"), Some(850))

\* what the ranking model call may deliver for these places
RequestModelResults(places) ==
    { ModelThrows,
      ModelReturns(<< >>),
      ModelReturns(<< TokProse >>),
      ModelReturns(<< TokFenceJson, TokNewline, TokJson(ReverseRanking(places)),
                      TokNewline, TokFence >>),
      ModelReturns(<< TokJson(DocObject(RpArray(<< >>), Some("overall"), Some(850))) >>) }

\* what an action-suggestion model call may deliver
RequestActionResults ==
    { ModelThrows,
      ModelReturns(<< TokJson(DocActions(JsArray(
                        << MkAction("book", "Book a table", Undefined, 5) >>))) >>) }

IdleRequestVars ==
    /\ rqPc = "idle"
    /\ rqReq = BaseRequest
    /\ rqUserPreferences = Undefined
    /\ rqUserHistory = Undefined
    /\ rqPlaces = << >>
    /\ rqModelResult = Undefined
    /\ rqAiResponse = Undefined
    /\ rqPending = {}
    /\ rqActions = << >>
    /\ rqCalls = [user |-> 0, feedback |-> 0, search |-> 0, rank |-> 0,
                  suggest |-> 0, log |-> 0]
    /\ rqLogged = Undefined
    /\ rqResponse = Undefined
    /\ rqSettled = [user |-> "none", feedback |-> "none", search |-> "none", log |-> "none"]
    /\ rqSuggestCalls = << >>
    /\ rqActionResults = << >>
    /\ rqOutOfOrder = FALSE
    /\ rqWaited = 0

ValidationErrorResponse(errors) ==
    [status |-> 400, error |-> "Invalid search parameters", details |-> errors]

ServerErrorResponse ==
    [status |-> 500, error |-> "Internal server error",
     message |-> "Failed to search places"]

NoPlacesResponse(searchParams) ==
    [status |-> 200, places |-> << >>,
     message |-> "No places found matching your criteria",
     suggestions |-> generateSearchSuggestions(searchParams)]

\* the body of the final res.json
SuccessResponse_RankedIsReturned(places, aiResponse, actions, req) ==
    LET top == SubSeq(aiResponse.rankedPlaces, 1, Min(TopK, Len(aiResponse.rankedPlaces)))
    IN  [status |-> 200,
         places |-> [i \in 1..Len(top) |-> [place |-> top[i], suggestedActions |-> actions[i]]],
         metadata |-> [total |-> Len(places),
                       ranked |-> Len(top),
                       confidence |-> aiResponse.confidence,
                       reasoning |-> aiResponse.reasoning],
         userContext |-> buildUserContext(req)]

SuccessResponse(places, aiResponse, actions, req) ==
    LET top == SubSeq(aiResponse.rankedPlaces, 1, Min(TopK, Len(aiResponse.rankedPlaces)))
    IN  [status |-> 200,
         places |-> [i \in 1..Len(top) |-> [place |-> top[i], suggestedActions |-> actions[i]]],
         metadata |-> [total |-> Len(places),
                       ranked |-> Len(aiResponse.rankedPlaces),
                       confidence |-> aiResponse.confidence,
                       reasoning |-> aiResponse.reasoning],
         userContext |-> buildUserContext(req)]

\* the request arrives: parameters are validated; the handler stops at its
\* first await (getUserById with a user id, else placesService.searchPlaces)
Receive_ValidationIgnored ==
    /\ rqPc = "idle"
    /\ \E req \in Requests :
          LET validation == validateSearchParams(req)
          IN  /\ rqReq' = req
              /\ IF ~validation.isValid /\ FALSE
                 THEN /\ rqResponse' = Some(ValidationErrorResponse(validation.errors))
                      /\ rqPc' = "done"
                      /\ UNCHANGED rqCalls
                 ELSE IF Truthy(req.userId)
                 THEN /\ rqPc' = "getUserById"
                      /\ rqCalls' = [rqCalls EXCEPT !.user = @ + 1]
                      /\ UNCHANGED rqResponse
                 ELSE /\ rqPc' = "searchPlaces"
                      /\ rqCalls' = [rqCalls EXCEPT !.search = @ + 1]
                      /\ UNCHANGED rqResponse
    /\ UNCHANGED <<rqUserPreferences, rqUserHistory, rqPlaces, rqModelResult,
                   rqAiResponse, rqPending, rqActions, rqLogged,
                   rqSettled, rqSuggestCalls, rqActionResults, rqOutOfOrder,
                   rqWaited,
                   scoreVars, rankVars, actionVars, feedbackVars, intentVars>>

Receive ==
    /\ rqPc = "idle"
    /\ \E req \in Requests :
          LET validation == validateSearchParams(req)
          IN  /\ rqReq' = req
              /\ IF ~validation.isValid
                 THEN /\ rqResponse' = Some(ValidationErrorResponse(validation.errors))
                      /\ rqPc' = "done"
                      /\ UNCHANGED rqCalls
                 ELSE IF Truthy(req.userId)
                 THEN /\ rqPc' = "getUserById"
                      /\ rqCalls' = [rqCalls EXCEPT !.user = @ + 1]
                      /\ UNCHANGED rqResponse
                 ELSE /\ rqPc' = "searchPlaces"
                      /\ rqCalls' = [rqCalls EXCEPT !.search = @ + 1]
                      /\ UNCHANGED rqResponse
    /\ UNCHANGED <<rqUserPreferences, rqUserHistory, rqPlaces, rqModelResult,
                   rqAiResponse, rqPending, rqActions, rqLogged,
                   rqSettled, rqSuggestCalls, rqActionResults, rqOutOfOrder,
                   rqWaited,
                   scoreVars, rankVars, actionVars, feedbackVars, intentVars>>

\* getUserById resolves (user may be null); getUserFeedback is awaited next
UserFetched ==
    /\ rqPc = "getUserById"
    /\ rqSettled' = [rqSettled EXCEPT !.user = "resolved"]
    /\ \E prefs \in {Undefined, Some(PrefsExample)} : rqUserPreferences' = prefs
    /\ rqPc' = "getUserFeedback"
    /\ rqCalls' = [rqCalls EXCEPT !.feedback = @ + 1]
    /\ UNCHANGED <<rqReq, rqUserHistory, rqPlaces, rqModelResult, rqAiResponse,
                   rqPending, rqActions, rqLogged, rqResponse,
                   rqSuggestCalls, rqActionResults, rqOutOfOrder,
                   rqWaited,
                   scoreVars, rankVars, actionVars, feedbackVars, intentVars>>

\* getUserById rejects: the catch logs a warning, the search is started
UserFetchFails_Fatal ==
    /\ rqPc = "getUserById"
    /\ rqSettled' = [rqSettled EXCEPT !.user = "rejected"]
    /\ rqPc' = "done"
    /\ rqResponse' = Some(ServerErrorResponse)
    /\ UNCHANGED rqCalls
    /\ UNCHANGED <<rqReq, rqUserPreferences, rqUserHistory, rqPlaces, rqModelResult,
                   rqAiResponse, rqPending, rqActions, rqLogged,
                   rqSuggestCalls, rqActionResults, rqOutOfOrder,
                   rqWaited,
                   scoreVars, rankVars, actionVars, feedbackVars, intentVars>>

UserFetchFails ==
    /\ rqPc = "getUserById"
    /\ rqSettled' = [rqSettled EXCEPT !.user = "rejected"]
    /\ rqPc' = "searchPlaces"
    /\ rqCalls' = [rqCalls EXCEPT !.search = @ + 1]
    /\ UNCHANGED <<rqReq, rqUserPreferences, rqUserHistory, rqPlaces, rqModelResult,
                   rqAiResponse, rqPending, rqActions, rqLogged, rqResponse,
                   rqSuggestCalls, rqActionResults, rqOutOfOrder,
                   rqWaited,
                   scoreVars, rankVars, actionVars, feedbackVars, intentVars>>

\* getUserFeedback resolves
FeedbackFetched ==
    /\ rqPc = "getUserFeedback"
    /\ rqSettled' = [rqSettled EXCEPT !.feedback = "resolved"]
    /\ \E history \in {<< >>, <<"feedback">>} : rqUserHistory' = Some(history)
    /\ rqPc' = "searchPlaces"
    /\ rqCalls' = [rqCalls EXCEPT !.search = @ + 1]
    /\ UNCHANGED <<rqReq, rqUserPreferences, rqPlaces, rqModelResult, rqAiResponse,
                   rqPending, rqActions, rqLogged, rqResponse,
                   rqSuggestCalls, rqActionResults, rqOutOfOrder,
                   rqWaited,
                   scoreVars, rankVars, actionVars, feedbackVars, intentVars>>

\* getUserFeedback rejects: the catch logs a warning, the search is started
FeedbackFetchFails ==
    /\ rqPc = "getUserFeedback"
    /\ rqSettled' = [rqSettled EXCEPT !.feedback = "rejected"]
    /\ rqPc' = "searchPlaces"
    /\ rqCalls' = [rqCalls EXCEPT !.search = @ + 1]
    /\ UNCHANGED <<rqReq, rqUserPreferences, rqUserHistory, rqPlaces, rqModelResult,
                   rqAiResponse, rqPending, rqActions, rqLogged, rqResponse,
                   rqSuggestCalls, rqActionResults, rqOutOfOrder,
                   rqWaited,
                   scoreVars, rankVars, actionVars, feedbackVars, intentVars>>

\* placesService.searchPlaces resolves: no places ends the request with
\* suggestions, otherwise rankPlaces is called
SearchReturns_NoEmptyCheck ==
    /\ rqPc = "searchPlaces"
    /\ \E places \in FetchedLists :
          /\ rqPlaces' = places
          /\ rqSettled' = [rqSettled EXCEPT
                              !.search = IF Len(places) = 0 THEN "empty" ELSE "places"]
          /\ rqPc' = "rankPlaces"
          /\ rqCalls' = [rqCalls EXCEPT !.rank = @ + 1]
          /\ UNCHANGED rqResponse
    /\ UNCHANGED <<rqReq, rqUserPreferences, rqUserHistory, rqModelResult,
                   rqAiResponse, rqPending, rqActions, rqLogged,
                   rqSuggestCalls, rqActionResults, rqOutOfOrder,
                   rqWaited,
                   scoreVars, rankVars, actionVars, feedbackVars, intentVars>>

SearchReturns ==
    /\ rqPc = "searchPlaces"
    /\ \E places \in FetchedLists :
          /\ rqPlaces' = places
          /\ rqSettled' = [rqSettled EXCEPT
                              !.search = IF Len(places) = 0 THEN "empty" ELSE "places"]
          /\ IF Len(places) = 0
             THEN /\ rqResponse' = Some(NoPlacesResponse(rqReq))
                  /\ rqPc' = "done"
                  /\ UNCHANGED rqCalls
             ELSE /\ rqPc' = "rankPlaces"
                  /\ rqCalls' = [rqCalls EXCEPT !.rank = @ + 1]
                  /\ UNCHANGED rqResponse
    /\ UNCHANGED <<rqReq, rqUserPreferences, rqUserHistory, rqModelResult,
                   rqAiResponse, rqPending, rqActions, rqLogged,
                   rqSuggestCalls, rqActionResults, rqOutOfOrder,
                   rqWaited,
                   scoreVars, rankVars, actionVars, feedbackVars, intentVars>>

\* placesService.searchPlaces rejects: the outer catch answers 500
SearchFails_AnsweredAsEmpty ==
    /\ rqPc = "searchPlaces"
    /\ rqResponse' = Some(NoPlacesResponse(rqReq))
    /\ rqPc' = "done"
    /\ rqSettled' = [rqSettled EXCEPT !.search = "rejected"]
    /\ UNCHANGED <<rqReq, rqUserPreferences, rqUserHistory, rqPlaces, rqModelResult,
                   rqAiResponse, rqPending, rqActions, rqCalls, rqLogged,
                   rqSuggestCalls, rqActionResults, rqOutOfOrder,
                   rqWaited,
                   scoreVars, rankVars, actionVars, feedbackVars, intentVars>>

SearchFails ==
    /\ rqPc = "searchPlaces"
    /\ rqResponse' = Some(ServerErrorResponse)
    /\ rqPc' = "done"
    /\ rqSettled' = [rqSettled EXCEPT !.search = "rejected"]
    /\ UNCHANGED <<rqReq, rqUserPreferences, rqUserHistory, rqPlaces, rqModelResult,
                   rqAiResponse, rqPending, rqActions, rqCalls, rqLogged,
                   rqSuggestCalls, rqActionResults, rqOutOfOrder,
                   rqWaited,
                   scoreVars, rankVars, actionVars, feedbackVars, intentVars>>

\* what follows Promise.all: logSearch with a user id, else the response
AfterActions(aiResponse, actions, calls) ==
    IF Truthy(rqReq.userId)
    THEN /\ rqPc' = "logSearch"
         /\ rqCalls' = [calls EXCEPT !.log = @ + 1]
         /\ rqLogged' = Some([i \in 1..Len(aiResponse.rankedPlaces) |->
                                 aiResponse.rankedPlaces[i].fsq_id])
         /\ rqSettled' = [rqSettled EXCEPT !.log = "pending"]
         /\ UNCHANGED rqResponse
    ELSE /\ rqPc' = "done"
         /\ rqCalls' = calls
         /\ rqResponse' = Some(SuccessResponse(rqPlaces, aiResponse, actions, rqReq))
         /\ UNCHANGED <<rqLogged, rqSettled>>

\* rankPlaces is still awaiting model.generateContent: a time unit passes and
\* nothing else happens (the call is made without a timeout)
RankCallPending ==
    /\ rqPc = "rankPlaces"
    /\ rqWaited < MaxWait
    /\ rqWaited' = rqWaited + 1
    /\ UNCHANGED <<rqPc, rqReq, rqUserPreferences, rqUserHistory, rqPlaces, rqModelResult,
                   rqAiResponse, rqPending, rqActions, rqCalls, rqLogged, rqResponse,
                   rqSettled, rqSuggestCalls, rqActionResults, rqOutOfOrder,
                   scoreVars, rankVars, actionVars, feedbackVars, intentVars>>

\* the ranking model call settles and rankPlaces runs to its end: a throw is
\* answered 500 by the outer catch, otherwise one action call per top place
\* is started
RankSettles_NoSlice ==
    /\ rqPc = "rankPlaces"
    /\ \E modelResult \in RequestModelResults(rqPlaces) :
          \E out \in rankPlaces(rqPlaces, modelResult) :
              /\ rqModelResult' = Some(modelResult)
              /\ IF out.status = "threw"
                 THEN /\ rqResponse' = Some(ServerErrorResponse)
                      /\ rqPc' = "done"
                      /\ UNCHANGED <<rqAiResponse, rqPending, rqActions, rqCalls, rqLogged,
                                     rqSettled, rqSuggestCalls, rqActionResults>>
                 ELSE LET aiResponse == Val(out.value)
                          k == Len(aiResponse.rankedPlaces)
                      IN  /\ rqAiResponse' = out.value
                          /\ rqPending' = 1..k
                          /\ rqActions' = [i \in 1..k |-> Undefined]
                          /\ rqActionResults' = [i \in 1..k |-> Undefined]
                          /\ rqSuggestCalls' = [i \in 1..k |-> aiResponse.rankedPlaces[i].fsq_id]
                          /\ IF k = 0
                             THEN AfterActions(aiResponse, << >>, rqCalls)
                             ELSE /\ rqPc' = "generateActionSuggestions"
                                  /\ rqCalls' = [rqCalls EXCEPT !.suggest = @ + k]
                                  /\ UNCHANGED <<rqLogged, rqResponse, rqSettled>>
    /\ UNCHANGED <<rqReq, rqUserPreferences, rqUserHistory, rqPlaces, rqOutOfOrder,
                   rqWaited,
                   scoreVars, rankVars, actionVars, feedbackVars, intentVars>>

RankSettles ==
    /\ rqPc = "rankPlaces"
    /\ \E modelResult \in RequestModelResults(rqPlaces) :
          \E out \in rankPlaces(rqPlaces, modelResult) :
              /\ rqModelResult' = Some(modelResult)
              /\ IF out.status = "threw"
                 THEN /\ rqResponse' = Some(ServerErrorResponse)
                      /\ rqPc' = "done"
                      /\ UNCHANGED <<rqAiResponse, rqPending, rqActions, rqCalls, rqLogged,
                                     rqSettled, rqSuggestCalls, rqActionResults>>
                 ELSE LET aiResponse == Val(out.value)
                          k == Min(TopK, Len(aiResponse.rankedPlaces))
                      IN  /\ rqAiResponse' = out.value
                          /\ rqPending' = 1..k
                          /\ rqActions' = [i \in 1..k |-> Undefined]
                          /\ rqActionResults' = [i \in 1..k |-> Undefined]
                          /\ rqSuggestCalls' = [i \in 1..k |-> aiResponse.rankedPlaces[i].fsq_id]
                          /\ IF k = 0
                             THEN AfterActions(aiResponse, << >>, rqCalls)
                             ELSE /\ rqPc' = "generateActionSuggestions"
                                  /\ rqCalls' = [rqCalls EXCEPT !.suggest = @ + k]
                                  /\ UNCHANGED <<rqLogged, rqResponse, rqSettled>>
    /\ UNCHANGED <<rqReq, rqUserPreferences, rqUserHistory, rqPlaces, rqOutOfOrder,
                   rqWaited,
                   scoreVars, rankVars, actionVars, feedbackVars, intentVars>>

\* one of the action-suggestion calls settles: its result becomes the element
\* of placesWithActions at the position of its place; the last one resolves
\* Promise.all
ActionSettles_FirstFreeSlot ==
    /\ rqPc = "generateActionSuggestions"
    /\ \E i \in rqPending, modelResult \in RequestActionResults :
          LET out     == generateActionSuggestions(Val(rqAiResponse).rankedPlaces[i], modelResult)
              slot    == 1 + Cardinality({j \in 1..Len(rqActions) : Has(rqActions[j])})
              actions == [rqActions EXCEPT ![slot] = Some(out.value)]
          IN  /\ rqActions' = actions
              /\ rqActionResults' = [rqActionResults EXCEPT ![i] = Some(modelResult)]
              /\ rqOutOfOrder' = (rqOutOfOrder \/ \E j \in rqPending : j < i)
              /\ rqPending' = rqPending \ {i}
              /\ IF rqPending \ {i} = {}
                 THEN AfterActions(Val(rqAiResponse),
                                   [j \in 1..Len(actions) |-> Val(actions[j])], rqCalls)
                 ELSE UNCHANGED <<rqPc, rqCalls, rqLogged, rqResponse, rqSettled>>
    /\ UNCHANGED <<rqReq, rqUserPreferences, rqUserHistory, rqPlaces, rqModelResult,
                   rqAiResponse, rqSuggestCalls,
                   rqWaited,
                   scoreVars, rankVars, actionVars, feedbackVars, intentVars>>

ActionSettles ==
    /\ rqPc = "generateActionSuggestions"
    /\ \E i \in rqPending, modelResult \in RequestActionResults :
          LET out     == generateActionSuggestions(Val(rqAiResponse).rankedPlaces[i], modelResult)
              slot    == i
              actions == [rqActions EXCEPT ![slot] = Some(out.value)]
          IN  /\ rqActions' = actions
              /\ rqActionResults' = [rqActionResults EXCEPT ![i] = Some(modelResult)]
              /\ rqOutOfOrder' = (rqOutOfOrder \/ \E j \in rqPending : j < i)
              /\ rqPending' = rqPending \ {i}
              /\ IF rqPending \ {i} = {}
                 THEN AfterActions(Val(rqAiResponse),
                                   [j \in 1..Len(actions) |-> Val(actions[j])], rqCalls)
                 ELSE UNCHANGED <<rqPc, rqCalls, rqLogged, rqResponse, rqSettled>>
    /\ UNCHANGED <<rqReq, rqUserPreferences, rqUserHistory, rqPlaces, rqModelResult,
                   rqAiResponse, rqSuggestCalls,
                   rqWaited,
                   scoreVars, rankVars, actionVars, feedbackVars, intentVars>>

\* the awaited logSearch resolves; the response is sent
LogSucceeds ==
    /\ rqPc = "logSearch"
    /\ rqSettled' = [rqSettled EXCEPT !.log = "resolved"]
    /\ rqResponse' = Some(SuccessResponse(rqPlaces, Val(rqAiResponse),
                              [j \in 1..Len(rqActions) |-> Val(rqActions[j])], rqReq))
    /\ rqPc' = "done"
    /\ UNCHANGED <<rqReq, rqUserPreferences, rqUserHistory, rqPlaces, rqModelResult,
                   rqAiResponse, rqPending, rqActions, rqCalls, rqLogged,
                   rqSuggestCalls, rqActionResults, rqOutOfOrder,
                   rqWaited,
                   scoreVars, rankVars, actionVars, feedbackVars, intentVars>>

\* the awaited logSearch rejects: the catch logs a warning; the response is sent
LogFails_AnswersError ==
    /\ rqPc = "logSearch"
    /\ rqSettled' = [rqSettled EXCEPT !.log = "rejected"]
    /\ rqResponse' = Some(ServerErrorResponse)
    /\ rqPc' = "done"
    /\ UNCHANGED <<rqReq, rqUserPreferences, rqUserHistory, rqPlaces, rqModelResult,
                   rqAiResponse, rqPending, rqActions, rqCalls, rqLogged,
                   rqSuggestCalls, rqActionResults, rqOutOfOrder,
                   rqWaited,
                   scoreVars, rankVars, actionVars, feedbackVars, intentVars>>

LogFails_Unanswered ==
    /\ rqPc = "logSearch"
    /\ rqSettled' = [rqSettled EXCEPT !.log = "rejected"]
    /\ UNCHANGED rqResponse
    /\ rqPc' = "done"
    /\ UNCHANGED <<rqReq, rqUserPreferences, rqUserHistory, rqPlaces, rqModelResult,
                   rqAiResponse, rqPending, rqActions, rqCalls, rqLogged,
                   rqSuggestCalls, rqActionResults, rqOutOfOrder,
                   rqWaited,
                   scoreVars, rankVars, actionVars, feedbackVars, intentVars>>

LogFails ==
    /\ rqPc = "logSearch"
    /\ rqSettled' = [rqSettled EXCEPT !.log = "rejected"]
    /\ rqResponse' = Some(SuccessResponse(rqPlaces, Val(rqAiResponse),
                              [j \in 1..Len(rqActions) |-> Val(rqActions[j])], rqReq))
    /\ rqPc' = "done"
    /\ UNCHANGED <<rqReq, rqUserPreferences, rqUserHistory, rqPlaces, rqModelResult,
                   rqAiResponse, rqPending, rqActions, rqCalls, rqLogged,
                   rqSuggestCalls, rqActionResults, rqOutOfOrder,
                   rqWaited,
                   scoreVars, rankVars, actionVars, feedbackVars, intentVars>>

----------------------------------------------------------------------------
(* GeminiService.analyzeUserFeedback and getDefaultPreferences *)

MkPreferences(categories, priceRange, maxDistance, preferredHours) ==
    [categories |-> categories, priceRange |-> priceRange,
     maxDistance |-> maxDistance, preferredHours |-> preferredHours]

Hours(start, end) == [start |-> start, end |-> end]

getDefaultPreferences_WiderRadius ==
    MkPreferences(<< >>, <<1, 4>>, 5000, Hours(8, 22))

getDefaultPreferences ==
    MkPreferences(<< >>, <<1, 4>>, 1000, Hours(8, 22))

\* the object the preference model wrote; every field may be missing
DocPreferences(categories, priceRange, maxDistance, preferredHours) ==
    [kind |-> "object", categories |-> categories, priceRange |-> priceRange,
     maxDistance |-> maxDistance, preferredHours |-> preferredHours]

\* the part of analyzeUserFeedback after the model call
preferencesFromModel(modelResult) ==
    IF modelResult.kind = "throw" \/ modelResult.text = << >>
    THEN getDefaultPreferences
    ELSE LET parsed == JSONparse(modelResult.text)
         IN  IF ~parsed.ok \/ parsed.value.kind = "null"
             THEN getDefaultPreferences
             ELSE MkPreferences(
                    IF Has(parsed.value.categories)
                    THEN Val(parsed.value.categories) ELSE << >>,
                    IF Has(parsed.value.priceRange)
                    THEN Val(parsed.value.priceRange) ELSE <<1, 4>>,
                    IF Has(parsed.value.maxDistance) /\ Val(parsed.value.maxDistance) # 0
                    THEN Val(parsed.value.maxDistance) ELSE 1000,
                    IF Has(parsed.value.preferredHours)
                    THEN Val(parsed.value.preferredHours) ELSE Hours(8, 22))

MkFeedback(rating, comment, intent) ==
    [rating |-> rating, comment |-> comment, context |-> [intent |-> intent]]

FeedbackItems ==
    { MkFeedback(5, Some("great coffee"), "drinks"),
      MkFeedback(2, Undefined, "dining") }

FeedbackLists == SeqsUpTo(FeedbackItems, MaxFeedback)

PreferenceDocs ==
    { DocPreferences(c, p, d, h) :
        c \in {Undefined, Some(<<StrCoffee>>)},
        p \in {Undefined, Some(<<1, 2>>), Some(<<4, 1>>), Some(<<0, 7>>)},
        d \in {Undefined, Some(500), Some(0), Some(-5)},
        h \in {Undefined, Some(Hours(9, 17)), Some(Hours(30, 22))} }
    \cup { DocNull }

PreferenceTexts ==
    { << >>, << TokProse >> }
    \cup { << TokJson(doc) >> : doc \in PreferenceDocs }
    \cup { << TokFenceJson, TokNewline, TokJson(doc), TokNewline, TokFence >> :
             doc \in PreferenceDocs }

\* analyzeUserFeedback is entered: an empty list returns the defaults at
\* once, otherwise model.generateContent is awaited
AnalyzeCall ==
    /\ afPc = "idle"
    /\ \E feedback \in FeedbackLists :
          /\ afFeedback' = feedback
          /\ IF Len(feedback) = 0
             THEN /\ afOut' = Some(getDefaultPreferences)
                  /\ afPc' = "returned"
                  /\ UNCHANGED afModelCalls
             ELSE /\ afPc' = "awaiting"
                  /\ afModelCalls' = afModelCalls + 1
                  /\ UNCHANGED afOut
    /\ UNCHANGED <<afText, scoreVars, rankVars, actionVars, requestVars, intentVars>>

\* the model call returns a text; analyzeUserFeedback runs to its end
AnalyzeModelReturns ==
    /\ afPc = "awaiting"
    /\ \E txt \in PreferenceTexts :
          /\ afText' = Some(txt)
          /\ afOut' = Some(preferencesFromModel(ModelReturns(txt)))
    /\ afPc' = "returned"
    /\ UNCHANGED <<afFeedback, afModelCalls, scoreVars, rankVars, actionVars, requestVars, intentVars>>

\* the model call rejects; analyzeUserFeedback runs to its end
AnalyzeModelThrows ==
    /\ afPc = "awaiting"
    /\ afOut' = Some(preferencesFromModel(ModelThrows))
    /\ afPc' = "returned"
    /\ UNCHANGED <<afFeedback, afText, afModelCalls, scoreVars, rankVars, actionVars,
                   requestVars, intentVars>>

IdleFeedbackVars ==
    /\ afPc = "idle"
    /\ afFeedback = << >>
    /\ afText = Undefined
    /\ afModelCalls = 0
    /\ afOut = Undefined

----------------------------------------------------------------------------
(* PlacesController.determineIntent *)

KwEat           == <<"e", "a", "t">>
KwFood          == <<"f", "o", "o", "d">>
KwRestaurant    == <<"r", "e", "s", "t", "a", "u", "r", "a", "n", "t">>
KwDrink         == <<"d", "r", "i", "n", "k">>
KwBar           == <<"b", "a", "r">>
KwCoffee        == <<"c", "o", "f", "f", "e", "e">>
KwShop          == <<"s", "h", "o", "p">>
KwBuy           == <<"b", "u", "y">>
KwStore         == <<"s", "t", "o", "r", "e">>
KwFun           == <<"f", "u", "n">>
KwActivity      == <<"a", "c", "t", "i", "v", "i", "t", "y">>
KwEntertainment == <<"e", "n", "t", "e", "r", "t", "a", "i", "n", "m", "e", "n", "t">>
KwWork          == <<"w", "o", "r", "k">>
KwOffice        == <<"o", "f", "f", "i", "c", "e">>
KwMeeting       == <<"m", "e", "e", "t", "i", "n", "g">>

determineIntent_CaseSensitive(query) ==
    LET lowerQuery == query
    IN  IF includes(lowerQuery, KwEat) \/ includes(lowerQuery, KwFood)
           \/ includes(lowerQuery, KwRestaurant)
        THEN "dining"
        ELSE IF includes(lowerQuery, KwDrink) \/ includes(lowerQuery, KwBar)
                \/ includes(lowerQuery, KwCoffee)
        THEN "drinks"
        ELSE IF includes(lowerQuery, KwShop) \/ includes(lowerQuery, KwBuy)
                \/ includes(lowerQuery, KwStore)
        THEN "shopping"
        ELSE IF includes(lowerQuery, KwFun) \/ includes(lowerQuery, KwActivity)
                \/ includes(lowerQuery, KwEntertainment)
        THEN "entertainment"
        ELSE IF includes(lowerQuery, KwWork) \/ includes(lowerQuery, KwOffice)
                \/ includes(lowerQuery, KwMeeting)
        THEN "work"
        ELSE "general"

determineIntent(query) ==
    LET lowerQuery == toLowerCase(query)
    IN  IF includes(lowerQuery, KwEat) \/ includes(lowerQuery, KwFood)
           \/ includes(lowerQuery, KwRestaurant)
        THEN "dining"
        ELSE IF includes(lowerQuery, KwDrink) \/ includes(lowerQuery, KwBar)
                \/ includes(lowerQuery, KwCoffee)
        THEN "drinks"
        ELSE IF includes(lowerQuery, KwShop) \/ includes(lowerQuery, KwBuy)
                \/ includes(lowerQuery, KwStore)
        THEN "shopping"
        ELSE IF includes(lowerQuery, KwFun) \/ includes(lowerQuery, KwActivity)
                \/ includes(lowerQuery, KwEntertainment)
        THEN "entertainment"
        ELSE IF includes(lowerQuery, KwWork) \/ includes(lowerQuery, KwOffice)
                \/ includes(lowerQuery, KwMeeting)
        THEN "work"
        ELSE "general"

\* pieces the queries are put together from: keywords in mixed case, parts
\* of keywords, other words
QueryPieces ==
    { <<"e", "a", "t">>, <<"F", "O", "O", "D">>,
      <<"R", "e", "s", "t", "a", "u", "r", "a", "n", "t">>,
      <<"d", "r", "i", "n", "k">>, <<"B", "A", "R">>, StrCoffee,
      <<"S", "h", "o", "p">>, <<"b", "u", "Y">>, <<"s", "t", "o", "r", "e">>,
      <<"F", "u", "n">>, <<"a", "c", "t", "i", "v", "i", "t", "y">>,
      <<"E", "n", "t", "e", "r", "t", "a", "i", "n", "m", "e", "n", "t">>,
      <<"W", "O", "R", "K">>, <<"o", "f", "f", "i", "c", "e">>,
      <<"M", "e", "e", "t", "i", "n", "g">>,
      <<"b">>, <<"a", "r">>, <<"E", "A">>, <<"t">>, <<" ">>,
      <<"p", "a", "r", "k">>, <<"g", "y", "m">> }

RECURSIVE Concat(_)
Concat(pieces) ==
    IF pieces = << >> THEN << >> ELSE Head(pieces) \o Concat(Tail(pieces))

Queries == { Concat(pieces) : pieces \in SeqsUpTo(QueryPieces, MaxPieces) }

InitIntentVars ==
    /\ diQuery \in Queries
    /\ diIntent = Undefined

IdleIntentVars ==
    /\ diQuery = << >>
    /\ diIntent = Undefined

\* determineIntent(query) is evaluated
DetermineIntent ==
    /\ diIntent = Undefined
    /\ diIntent' = Some(determineIntent(diQuery))
    /\ UNCHANGED <<diQuery, scoreVars, rankVars, actionVars, requestVars, feedbackVars>>

IdleRankVars ==
    /\ rkPc = "idle"
    /\ rkPlaces = << >>
    /\ rkPrefs = Undefined
    /\ rkText = Undefined
    /\ rkBranch = "none"
    /\ rkOut = Undefined

InitScore == InitScoreVars /\ IdleRankVars /\ IdleActionVars /\ IdleRequestVars /\ IdleFeedbackVars /\ IdleIntentVars
NextScore == Score
SpecScore == InitScore /\ [][NextScore]_vars

InitRank == IdleScoreVars /\ IdleRankVars /\ IdleActionVars /\ IdleRequestVars /\ IdleFeedbackVars /\ IdleIntentVars
NextRank == RankPlacesCall \/ GenerateContentReturns \/ GenerateContentThrows
SpecRank == InitRank /\ [][NextRank]_vars

InitActions == IdleScoreVars /\ IdleRankVars /\ IdleActionVars /\ IdleRequestVars /\ IdleFeedbackVars /\ IdleIntentVars
NextActions == SuggestCall \/ SuggestModelReturns \/ SuggestModelThrows
SpecActions == InitActions /\ [][NextActions]_vars

InitFeedback == IdleScoreVars /\ IdleRankVars /\ IdleActionVars /\ IdleRequestVars
                  /\ IdleFeedbackVars /\ IdleIntentVars
NextFeedback == AnalyzeCall \/ AnalyzeModelReturns \/ AnalyzeModelThrows
SpecFeedback == InitFeedback /\ [][NextFeedback]_vars

InitIntent == IdleScoreVars /\ IdleRankVars /\ IdleActionVars /\ IdleRequestVars
                /\ IdleFeedbackVars /\ InitIntentVars
NextIntent == DetermineIntent
SpecIntent == InitIntent /\ [][NextIntent]_vars

Init == IdleScoreVars /\ IdleRankVars /\ IdleActionVars /\ IdleRequestVars /\ IdleFeedbackVars /\ IdleIntentVars
Next ==
    \/ Receive
    \/ UserFetched
    \/ UserFetchFails
    \/ FeedbackFetched
    \/ FeedbackFetchFails
    \/ SearchReturns
    \/ SearchFails
    \/ RankCallPending
    \/ RankSettles
    \/ ActionSettles
    \/ LogSucceeds
    \/ LogFails
Spec == Init /\ [][Next]_vars

\* every collaborator call of the request eventually returns or fails, and
\* the event loop runs the continuation of a settled call
SpecLive == Init /\ [][Next]_vars /\ WF_vars(Next)

----------------------------------------------------------------------------
(* Claims about the scorer (SpecScore) *)

\* C7: for every place and every well-formed preferences value,
\* calculateRelevanceScore returns a number s with 0 <= s <= 1.
C7_ScoreInUnitInterval ==
    Has(scScore) => (Val(scScore) >= 0 /\ Val(scScore) <= 1000)

\* a place with two matching categories whose unclamped sum exceeds 1
C7_Witness ==
    /\ Has(scScore)
    /\ Val(scScore) = 1000
    /\ matchingCategories(scPlace, scPrefs) = 2
    /\ RawScore(scPlace, scPrefs) > 1000

\* a place without distance, rating and price has been scored
C7_WitnessAbsent ==
    /\ Has(scScore)
    /\ scPlace.distance = Undefined /\ scPlace.rating = Undefined
    /\ scPlace.price = Undefined
    /\ Val(scScore) = 300

\* C8: the category term equals 0.3 times the number of entries of
\* preferences.categories that are a case-insensitive substring of at least
\* one place category name, divided by the number of entries of
\* preferences.categories; 0 when either list is empty; never above 0.3.
C8_CategoryTermIsPreferenceFraction ==
    Has(scScore) =>
        LET prefCats == scPrefs.categories
            matched  == { j \in 1..Len(prefCats) :
                            \E i \in 1..Len(scPlace.categories) :
                                includes(toLowerCase(scPlace.categories[i].name),
                                         toLowerCase(prefCats[j])) }
            claimed  == IF Len(prefCats) = 0 \/ Len(scPlace.categories) = 0
                        THEN 0
                        ELSE (300 * Cardinality(matched)) \div Len(prefCats)
        IN  /\ CategoryFactor(scPlace, scPrefs) = claimed
            /\ CategoryFactor(scPlace, scPrefs) <= 300

----------------------------------------------------------------------------
(* Claims about reconciliation (SpecRank) *)

\* C1: the ranked list contains only places whose id is in the candidate id
\* set, and no id occurs more than once in it.
C1_IdIntegrity ==
    rkPc = "returned" =>
        LET out == Val(rkOut).rankedPlaces
        IN  /\ \A i \in 1..Len(out) :
                  \E k \in 1..Len(rkPlaces) : out[i].fsq_id = rkPlaces[k].fsq_id
            /\ \A i, j \in 1..Len(out) : out[i].fsq_id = out[j].fsq_id => i = j

\* C2: the output is sorted by relevanceScore in descending order, and two
\* entries with equal relevanceScore appear in candidate-list order.
C2_SortedTiesInCandidateOrder ==
    rkPc = "returned" =>
        LET out == Val(rkOut).rankedPlaces
            pos(id) == CHOOSE k \in 1..Len(rkPlaces) : rkPlaces[k].fsq_id = id
        IN  \A i, j \in 1..Len(out) :
                (i < j /\ Has(out[i].relevanceScore) /\ Has(out[j].relevanceScore)) =>
                    /\ Val(out[i].relevanceScore) >= Val(out[j].relevanceScore)
                    /\ (Val(out[i].relevanceScore) = Val(out[j].relevanceScore)
                          => pos(out[i].fsq_id) <= pos(out[j].fsq_id))

\* C3: for non-JSON text, JSON whose entries reference only unknown ids
\* (possibly inside a json code fence) and the empty string, ranking does not
\* throw and returns the fallback ranking of all candidates with confidence
\* below 0.5.
C3_MalformedOutputIsSafe ==
    LET txt      == Val(rkText)
        parsed   == JSONparse(stripCodeBlock(txt))
        unknownOnly ==
            /\ parsed.ok
            /\ parsed.value.kind = "object"
            /\ parsed.value.rankedPlaces.kind = "array"
            /\ parsed.value.rankedPlaces.items # << >>
            /\ \A i \in 1..Len(parsed.value.rankedPlaces.items) :
                  findIndex(rkPlaces, parsed.value.rankedPlaces.items[i]) = 0
        malformed == txt = << >> \/ txt = << TokProse >> \/ unknownOnly
    IN  (rkPc \in {"returned", "threw"} /\ Has(rkText) /\ malformed) =>
            /\ rkPc = "returned"
            /\ Len(Val(rkOut).rankedPlaces) = Len(rkPlaces)
            /\ \A k \in 1..Len(rkPlaces) :
                  Val(rkOut).rankedPlaces[k].fsq_id = rkPlaces[k].fsq_id
            /\ Has(Val(rkOut).confidence)
            /\ Val(Val(rkOut).confidence) < 500

\* C5: when the parsed model output has at least one entry with a known id
\* and at least one with an unknown id, only the unknown-id entries are
\* dropped and the known-id entries are returned with their model-given
\* scores; the fallback is not used.
C5_UnknownEntriesDroppedOnly ==
    LET parsed == JSONparse(stripCodeBlock(Val(rkText)))
        items  == parsed.value.rankedPlaces.items
        known  == { i \in 1..Len(items) : findIndex(rkPlaces, items[i]) # 0 }
        mixed  == /\ parsed.ok
                  /\ parsed.value.kind = "object"
                  /\ parsed.value.rankedPlaces.kind = "array"
                  /\ known # {}
                  /\ known # 1..Len(items)
    IN  (rkPc \in {"returned", "threw"} /\ Has(rkText) /\ mixed) =>
            /\ rkPc = "returned"
            /\ rkBranch = "try"
            /\ Len(Val(rkOut).rankedPlaces) = Cardinality(known)
            /\ \A i \in known :
                  \E k \in 1..Len(Val(rkOut).rankedPlaces) :
                      /\ Some(Val(rkOut).rankedPlaces[k].fsq_id) = items[i].fsq_id
                      /\ Val(rkOut).rankedPlaces[k].relevanceScore = items[i].relevanceScore

\* C6: on the fallback path every candidate appears exactly once, its
\* relevanceScore is the RelevanceScorer score of that candidate, its
\* reasoning is "fallback ranking", its tags list is empty, its
\* estimatedBusyness is "medium", and the confidence is 0.3.
C6_FallbackUsesScorer ==
    (rkPc = "returned" /\ rkBranch = "catch" /\ Has(rkPrefs)) =>
        LET out == Val(rkOut).rankedPlaces
        IN  /\ \A k \in 1..Len(rkPlaces) :
                  Cardinality({ i \in 1..Len(out) : out[i].fsq_id = rkPlaces[k].fsq_id }) = 1
            /\ Len(out) = Len(rkPlaces)
            /\ \A i \in 1..Len(out) :
                  \E k \in 1..Len(rkPlaces) :
                      /\ out[i].fsq_id = rkPlaces[k].fsq_id
                      /\ out[i].relevanceScore
                            = Some(calculateRelevanceScore(rkPlaces[k], Val(rkPrefs)))
                      /\ out[i].aiReasoning = Some("fallback ranking")
                      /\ out[i].recommendationTags = << >>
                      /\ out[i].estimatedBusyTime = "medium"
            /\ Val(rkOut).confidence = Some(300)

\* C9 as stated: for candidates A, B and the example preferences the scorer
\* yields 0.77 for A and 0.21 for B, and the fallback order is [A, B].
C9_ExampleScores_Original ==
    (rkPc = "returned" /\ rkBranch = "catch"
       /\ rkPlaces = <<PlaceA, PlaceB>> /\ rkPrefs = Some(PrefsExample)) =>
        /\ calculateRelevanceScore(rkPlaces[1], Val(rkPrefs)) = 770
        /\ calculateRelevanceScore(rkPlaces[2], Val(rkPrefs)) = 210
        /\ [i \in 1..Len(Val(rkOut).rankedPlaces) |-> Val(rkOut).rankedPlaces[i].fsq_id]
              = <<"A", "B">>

\* C9 amended: for the candidate list [A, B] and the example preferences the
\* scorer yields 0.93 for A and 0.21 for B, and the fallback order is [A, B].
C9_ExampleScores ==
    (rkPc = "returned" /\ rkBranch = "catch"
       /\ rkPlaces = <<PlaceA, PlaceB>> /\ rkPrefs = Some(PrefsExample)) =>
        /\ calculateRelevanceScore(rkPlaces[1], Val(rkPrefs)) = 930
        /\ calculateRelevanceScore(rkPlaces[2], Val(rkPrefs)) = 210
        /\ [i \in 1..Len(Val(rkOut).rankedPlaces) |-> Val(rkOut).rankedPlaces[i].fsq_id]
              = <<"A", "B">>

\* the fallback ranked the example candidates
C9_Witness ==
    /\ rkPc = "returned" /\ rkBranch = "catch"
    /\ rkPlaces = <<PlaceA, PlaceB>> /\ rkPrefs = Some(PrefsExample)
    /\ Len(Val(rkOut).rankedPlaces) = 2

----------------------------------------------------------------------------
(* Claims about the rule-set actions (SpecActions) *)

\* C10: the rule-set action list starts with navigate (priority 5) and ends
\* with save (priority 2), contains call (priority 4) iff the place has a
\* phone and visit-website (priority 3) iff the place has a website; for a
\* place with both it is [navigate, call, visit_website, save] with
\* priorities 5, 4, 3, 2.
C10_DefaultActions ==
    (asPc = "returned" /\ asBranch = "default") =>
        LET acts     == Val(asOut).items
            n        == Len(acts)
            hasPhone == Has(asPlace.tel) /\ Val(asPlace.tel) # ""
            hasSite  == Has(asPlace.website) /\ Val(asPlace.website) # ""
            holds(t, p) == \E i \in 1..n : acts[i].type = t /\ acts[i].priority = p
            types    == [i \in 1..n |-> acts[i].type]
            prios    == [i \in 1..n |-> acts[i].priority]
        IN  /\ Val(asOut).kind = "array"
            /\ n >= 2
            /\ acts[1].type = "navigate" /\ acts[1].priority = 5
            /\ acts[n].type = "save" /\ acts[n].priority = 2
            /\ (\E i \in 1..n : acts[i].type = "call") <=> hasPhone
            /\ hasPhone => holds("call", 4)
            /\ (\E i \in 1..n : acts[i].type = "visit_website") <=> hasSite
            /\ hasSite => holds("visit_website", 3)
            /\ (hasPhone /\ hasSite) =>
                  /\ types = <<"navigate", "call", "visit_website", "save">>
                  /\ prios = <<5, 4, 3, 2>>

\* the rule set answered for a place with a website and no phone
C10_Witness ==
    /\ asPc = "returned" /\ asBranch = "default"
    /\ asPlace.tel = Undefined
    /\ Has(asPlace.website) /\ Val(asPlace.website) # ""
    /\ Len(Val(asOut).items) = 3

\* the rule set answered for a place with both phone and website
C10_WitnessBoth ==
    /\ asPc = "returned" /\ asBranch = "default"
    /\ Has(asPlace.tel) /\ Val(asPlace.tel) # ""
    /\ Has(asPlace.website) /\ Val(asPlace.website) # ""
    /\ Len(Val(asOut).items) = 4

----------------------------------------------------------------------------
(* Claims about the request handler (Spec) *)

\* C4: when the ranking model call fails (throws or returns no text) for a
\* request with at least one candidate, the request completes with a
\* successful response that carries the fallback ranking of the candidates.
C4_RankingFailureIsDegraded ==
    (/\ rqPc = "done"
     /\ Len(rqPlaces) >= 1
     /\ Has(rqModelResult)
     /\ (Val(rqModelResult).kind = "throw" \/ Val(rqModelResult).text = << >>)) =>
        /\ Val(rqResponse).status = 200
        /\ Len(Val(rqResponse).places) = Min(TopK, Len(rqPlaces))
        /\ \A i \in 1..Len(Val(rqResponse).places) :
              Val(rqResponse).places[i].place.fsq_id = rqPlaces[i].fsq_id

----------------------------------------------------------------------------
(* Claims about generateActionSuggestions (SpecActions) *)

\* C11: generateActionSuggestions never throws; it returns the model's list
\* only when the parsed model output is an array of objects each with a
\* recognized action type, and the rule-set list for every other model
\* outcome (call error, empty text, non-JSON text, actions missing, actions
\* not an array, an entry with an unrecognized type).
C11_ModelListOnlyWhenValid ==
    asPc = "returned" =>
        LET recognized == {"navigate", "call", "book", "save", "share", "visit_website"}
            parsed     == JSONparse(Val(asText))
            valid      == /\ Has(asText)
                          /\ parsed.ok
                          /\ parsed.value.kind = "object"
                          /\ parsed.value.actions.kind = "array"
                          /\ \A i \in 1..Len(parsed.value.actions.items) :
                                parsed.value.actions.items[i].type \in recognized
        IN  /\ Has(asOut)
            /\ Val(asOut).kind = "array"
            /\ IF valid
               THEN Val(asOut).items = parsed.value.actions.items
               ELSE /\ Len(Val(asOut).items) >= 2
                    /\ Val(asOut).items[1] = MkAction("navigate", "Get Directions", Undefined, 5)
                    /\ Val(asOut).items[Len(Val(asOut).items)]
                          = MkAction("save", "Save to Favorites", Undefined, 2)

\* C12: every list returned by generateActionSuggestions, from the model or
\* from the rule set, is ordered by descending priority, with ties in the
\* rule-set order navigate, call, visit_website, save.
C12_DescendingPriority ==
    (asPc = "returned" /\ Val(asOut).kind = "array") =>
        LET acts == Val(asOut).items
            rank(t) == CASE t = "navigate" -> 1 [] t = "call" -> 2
                         [] t = "visit_website" -> 3 [] t = "save" -> 4 [] OTHER -> 0
        IN  \A i, j \in 1..Len(acts) :
                i < j =>
                    /\ acts[i].priority >= acts[j].priority
                    /\ (acts[i].priority = acts[j].priority
                          /\ rank(acts[i].type) # 0 /\ rank(acts[j].type) # 0)
                         => rank(acts[i].type) <= rank(acts[j].type)

----------------------------------------------------------------------------
(* Claims about analyzeUserFeedback (SpecFeedback) *)

\* C13: analyzeUserFeedback applied to an empty feedback list returns exactly
\* {categories: [], priceRange: [1,4], maxDistance: 1000,
\* preferredHours: {start 8, end 22}} and does not call the model.
C13_EmptyFeedbackDefaults ==
    (afPc = "returned" /\ afFeedback = << >>) =>
        /\ afOut = Some([categories |-> << >>, priceRange |-> <<1, 4>>,
                         maxDistance |-> 1000,
                         preferredHours |-> [start |-> 8, end |-> 22]])
        /\ afModelCalls = 0
        /\ afText = Undefined

\* analyzeUserFeedback has returned for the empty list
C13_Witness ==
    afPc = "returned" /\ afFeedback = << >> /\ Has(afOut)

\* C14: the preferences returned by analyzeUserFeedback are well-formed:
\* priceRange [min,max] with 1 <= min <= max <= 4, maxDistance > 0,
\* preferredHours start and end in 0..23; a field the model returns missing
\* or invalid is replaced by its default.
C14_PreferencesWellFormed ==
    afPc = "returned" =>
        LET prefs == Val(afOut)
        IN  /\ 1 <= prefs.priceRange[1]
            /\ prefs.priceRange[1] <= prefs.priceRange[2]
            /\ prefs.priceRange[2] <= 4
            /\ prefs.maxDistance > 0
            /\ prefs.preferredHours.start \in 0..23
            /\ prefs.preferredHours.end \in 0..23

----------------------------------------------------------------------------
(* Claims about PlacesController.searchPlaces (Spec) *)

\* C15: a request whose latitude is outside [-90,90], whose longitude is
\* outside [-180,180], whose radius is non-finite, or whose limit is outside
\* [1,50] or non-finite is rejected with a 4xx validation error that lists
\* the failures, and the candidate source, the ranking model and the history
\* log are never called for it.
C15_InvalidRequestRejected ==
    LET outside(x, lo, hi) == ~x.nan /\ (x.n < lo \/ x.n > hi)
        invalid == \/ outside(rqReq.lat, -90, 90)
                   \/ outside(rqReq.lng, -180, 180)
                   \/ (Has(rqReq.radius) /\ Val(rqReq.radius).nan)
                   \/ outside(rqReq.limit, 1, 50)
                   \/ rqReq.limit.nan
    IN  (rqPc # "idle" /\ invalid) =>
            /\ rqPc = "done"
            /\ Val(rqResponse).status \in 400..499
            /\ Val(rqResponse).details # << >>
            /\ rqCalls.search = 0 /\ rqCalls.rank = 0 /\ rqCalls.log = 0

\* C16: when the candidate source returns zero candidates, the request ends
\* with a successful response that has an empty places list and a non-empty
\* list of suggestions, and the ranking model, the action engine and the
\* history log are not invoked.
C16_NoCandidates ==
    rqSettled.search = "empty" =>
        /\ rqPc = "done"
        /\ Has(rqResponse)
        /\ Val(rqResponse).status = 200
        /\ Val(rqResponse).places = << >>
        /\ Len(Val(rqResponse).suggestions) > 0
        /\ rqCalls.rank = 0 /\ rqCalls.suggest = 0 /\ rqCalls.log = 0
        /\ rqSuggestCalls = << >> /\ rqLogged = Undefined

\* the candidate source has returned an empty list, for a request with a user id
C16_Witness ==
    rqSettled.search = "empty" /\ Truthy(rqReq.userId) /\ Has(rqResponse)

\* C17: the action engine is invoked exactly once for each of the first
\* min(5, n) places of the ranked list and for no other place, so never more
\* than 5 action calls of the request are in flight.
C17_AtMostFiveActionCalls ==
    Has(rqAiResponse) =>
        LET ranked == Val(rqAiResponse).rankedPlaces
            k      == IF Len(ranked) < 5 THEN Len(ranked) ELSE 5
        IN  /\ Len(rqSuggestCalls) = k
            /\ \A i \in 1..k : rqSuggestCalls[i] = ranked[i].fsq_id
            /\ rqCalls.suggest = k
            /\ rqPending \subseteq 1..k
            /\ Cardinality(rqPending) <= 5

\* more than five places were ranked and all five calls are in flight
C17_Witness ==
    /\ Has(rqAiResponse)
    /\ Len(Val(rqAiResponse).rankedPlaces) > 5
    /\ Cardinality(rqPending) = 5
    /\ Len(rqSuggestCalls) = 5

\* C18: for every order in which the concurrent action calls complete, the
\* places of the response are in ranked order and each carries the action
\* list generated for that same place.
C18_ActionsStayWithTheirPlace ==
    (rqPc = "done" /\ Has(rqAiResponse) /\ Val(rqResponse).status = 200) =>
        LET ranked == Val(rqAiResponse).rankedPlaces
            sent   == Val(rqResponse).places
        IN  /\ Len(sent) = Len(rqSuggestCalls)
            /\ \A i \in 1..Len(sent) :
                  /\ sent[i].place = ranked[i]
                  /\ sent[i].suggestedActions =
                        generateActionSuggestions(ranked[i], Val(rqActionResults[i])).value

\* the response was sent after the calls completed out of ranked order, with
\* different action lists for the first two places
C18_Witness ==
    /\ rqPc = "done" /\ Has(rqAiResponse) /\ Val(rqResponse).status = 200
    /\ rqOutOfOrder
    /\ Len(Val(rqResponse).places) >= 2
    /\ Val(rqResponse).places[1].suggestedActions # Val(rqResponse).places[2].suggestedActions

\* C19: when logSearch throws, the response is the same successful response
\* (places, metadata, status) as when logging succeeds.
C19_LogFailureIsInvisible ==
    (rqPc = "done" /\ rqSettled.log \in {"resolved", "rejected"}) =>
        LET ranked == Val(rqAiResponse).rankedPlaces
            k      == IF Len(ranked) < 5 THEN Len(ranked) ELSE 5
            resp   == Val(rqResponse)
        IN  /\ resp.status = 200
            /\ resp.places = [i \in 1..k |-> [place |-> ranked[i],
                                               suggestedActions |-> Val(rqActions[i])]]
            /\ resp.metadata = [total |-> Len(rqPlaces), ranked |-> Len(ranked),
                                confidence |-> Val(rqAiResponse).confidence,
                                reasoning |-> Val(rqAiResponse).reasoning]
            /\ resp.userContext = buildUserContext(rqReq)

\* logSearch was called, rejected, and the response was sent
C19_Witness ==
    /\ rqPc = "done" /\ rqSettled.log = "rejected" /\ rqCalls.log = 1
    /\ Has(rqResponse) /\ Len(Val(rqResponse).places) > 0

\* C20: history logging does not block the response: once ranking and action
\* generation have completed the response is sent without waiting for
\* logSearch, so it is sent even when logSearch never completes.
C20_LogDoesNotBlock ==
    (rqPc = "logSearch" /\ rqSettled.log = "pending") => Has(rqResponse)

\* C21: when the candidate source fails, the request ends failed with an
\* error response, and the ranking model, the action engine and the history
\* log are never invoked.
C21_CandidateFailureIsFatal ==
    rqSettled.search = "rejected" =>
        /\ rqPc = "done"
        /\ Has(rqResponse)
        /\ Val(rqResponse).status >= 400
        /\ Val(rqResponse).error = "Internal server error"
        /\ rqCalls.rank = 0 /\ rqCalls.suggest = 0 /\ rqCalls.log = 0
        /\ rqModelResult = Undefined /\ rqSuggestCalls = << >> /\ rqLogged = Undefined

\* the candidate source was called for a request with a user id and rejected
C21_Witness ==
    /\ rqSettled.search = "rejected" /\ rqCalls.search = 1
    /\ Truthy(rqReq.userId) /\ Has(rqResponse)

\* C22: if the ranking model call has not returned when its timeout expires
\* (one time unit), the request treats the model output as null and goes on
\* with the fallback ranking: it is never still waiting on the ranking model
\* call after the timeout.
C22_RankingCallTimesOut ==
    (rqPc = "rankPlaces" /\ rqModelResult = Undefined) => rqWaited <= 1

\* C23: when every collaborator eventually returns or fails, a request whose
\* ranking has produced its list eventually ends, having sent a response;
\* a response once sent is never replaced, and an ended request makes no
\* further step.
C23_RankedRequestCompletes ==
    /\ Has(rqAiResponse) ~> (rqPc = "done" /\ Has(rqResponse))
    /\ [][Has(rqResponse) => rqResponse' = rqResponse]_vars
    /\ [][rqPc = "done" => UNCHANGED vars]_vars

\* a ranked request with a user id has ended with its response
C23_Witness ==
    /\ Has(rqAiResponse) /\ rqPc = "done" /\ Has(rqResponse)
    /\ rqSettled.log \in {"resolved", "rejected"}

----------------------------------------------------------------------------
(* Claims about determineIntent (SpecIntent) *)

\* C24: determineIntent returns exactly one of dining, drinks, shopping,
\* entertainment, work, general; a group matches when one of its keywords
\* occurs in the query as a substring, letter case ignored; the first
\* matching group in the order dining, drinks, shopping, entertainment, work
\* wins; the result is general exactly when no keyword of any group occurs.
C24_IntentByFirstMatchingGroup ==
    Has(diIntent) =>
        LET order == <<"dining", "drinks", "shopping", "entertainment", "work">>
            keywords == <<{KwEat, KwFood, KwRestaurant}, {KwDrink, KwBar, KwCoffee},
                          {KwShop, KwBuy, KwStore}, {KwFun, KwActivity, KwEntertainment},
                          {KwWork, KwOffice, KwMeeting}>>
            occursAt(kw, i) ==
                \A j \in 1..Len(kw) : ToLowerChar(diQuery[i + j]) = kw[j]
            matches(g) ==
                \E kw \in keywords[g] : \E i \in 0..(Len(diQuery) - Len(kw)) : occursAt(kw, i)
            intent == Val(diIntent)
        IN  /\ intent \in {"dining", "drinks", "shopping", "entertainment", "work", "general"}
            /\ (intent = "general") <=> (\A g \in 1..5 : ~matches(g))
            /\ \A g \in 1..5 :
                  (intent = order[g]) <=> (matches(g) /\ \A h \in 1..(g - 1) : ~matches(h))

\* a query with an upper-case keyword of a later group before a keyword of
\* the first group has been classified
C24_Witness ==
    /\ diQuery = <<"B", "A", "R", "F", "O", "O", "D">>
    /\ diIntent = Some("dining")

\* a query in which no keyword occurs has been classified
C24_WitnessGeneral ==
    /\ diQuery = <<"p", "a", "r", "k", "g", "y", "m">>
    /\ diIntent = Some("general")

----------------------------------------------------------------------------
(* Further claims about rankPlaces (SpecRank) *)

\* C25: in every successful ranking result, whatever numbers the model
\* returned, each place's relevanceScore is in [0,1], its busyness estimate
\* is one of low, medium, high, and the overall confidence is in [0,1].
C25_RankingResultInRange ==
    rkPc = "returned" =>
        LET result == Val(rkOut)
        IN  /\ \A i \in 1..Len(result.rankedPlaces) :
                  /\ Has(result.rankedPlaces[i].relevanceScore)
                  /\ Val(result.rankedPlaces[i].relevanceScore) \in 0..1000
                  /\ result.rankedPlaces[i].estimatedBusyTime \in {"low", "medium", "high"}
            /\ Has(result.confidence)
            /\ Val(result.confidence) \in 0..1000

----------------------------------------------------------------------------
(* Further claims about PlacesController.searchPlaces (Spec) *)

\* C26: the steps of a request occur only in the order validate, fetch
\* candidates, rank, generate actions, respond: the candidate source is not
\* called before validation has succeeded, the ranking model not before a
\* non-empty candidate list was fetched, no action call starts before the
\* ranking produced its list, and the success response is not sent before
\* all action calls have completed.
C26_StepsInOrder ==
    /\ rqCalls.search > 0 => validateSearchParams(rqReq).isValid
    /\ rqCalls.rank > 0 => (rqSettled.search = "places" /\ rqPlaces # << >>)
    /\ (rqCalls.suggest > 0 \/ rqPending # {}) => Has(rqAiResponse)
    /\ (Has(rqResponse) /\ Val(rqResponse).status = 200 /\ rqSettled.search = "places") =>
          /\ rqPending = {}
          /\ Len(rqActionResults) = Len(rqSuggestCalls)
          /\ \A i \in 1..Len(rqSuggestCalls) : Has(rqActionResults[i]) /\ Has(rqActions[i])

\* the success response of a request with three action calls has been sent
C26_Witness ==
    /\ Has(rqResponse) /\ Val(rqResponse).status = 200
    /\ rqCalls.search = 1 /\ rqCalls.rank = 1 /\ rqCalls.suggest = 3
    /\ Len(Val(rqResponse).places) = 3

\* C27: when a user id is given and the profile fetch or the feedback fetch
\* fails, the request is not failed: it goes on to fetch candidates and to
\* rank them, with the preferences or history that could not be read left
\* undefined.
C27_UserDataIsOptional ==
    /\ rqSettled.user = "rejected" =>
          /\ rqUserPreferences = Undefined /\ rqUserHistory = Undefined
          /\ rqCalls.feedback = 0
    /\ rqSettled.feedback = "rejected" => rqUserHistory = Undefined
    /\ (rqSettled.user = "rejected" \/ rqSettled.feedback = "rejected") =>
          /\ rqCalls.search = 1
          /\ rqSettled.search = "places" => rqCalls.rank = 1
          /\ (Has(rqResponse) /\ Val(rqResponse).status >= 400) =>
                \/ rqSettled.search = "rejected"
                \/ (Has(rqModelResult) /\ rqAiResponse = Undefined)

\* the feedback fetch failed after the profile was read, and the request
\* was ranked and answered
C27_Witness ==
    /\ rqSettled.feedback = "rejected" /\ Has(rqUserPreferences)
    /\ Has(rqAiResponse) /\ Has(rqResponse) /\ Val(rqResponse).status = 200

\* the profile fetch failed, and the request was ranked and answered
C27_WitnessProfile ==
    /\ rqSettled.user = "rejected"
    /\ Has(rqAiResponse) /\ Has(rqResponse) /\ Val(rqResponse).status = 200

----------------------------------------------------------------------------
(* Further claims about generateActionSuggestions (SpecActions) *)

\* C28: every list returned by generateActionSuggestions contains a navigate
\* action, also when the list comes from the model (an empty actions array,
\* or a list without navigate): the rule set is the floor of the result.
C28_NavigateAlwaysPresent ==
    (asPc = "returned" /\ Val(asOut).kind = "array") =>
        \E i \in 1..Len(Val(asOut).items) : Val(asOut).items[i].type = "navigate"

----------------------------------------------------------------------------
(* Claims about the response of searchPlaces (Spec) *)

\* C29: the UserContext that searchPlaces builds always has groupSize >= 1,
\* urgency in {low, medium, high} and dayOfWeek in 0..6, for every value of
\* the groupSize and urgency request parameters.
C29_UserContextWellFormed ==
    (Has(rqResponse) /\ Val(rqResponse).status = 200 /\ rqSettled.search = "places") =>
        LET userContext == Val(rqResponse).userContext
        IN  /\ userContext.groupSize >= 1
            /\ userContext.urgency \in {"low", "medium", "high"}
            /\ userContext.dayOfWeek \in 0..6

\* C30: in every successful response to a search with n >= 1 ranked places
\* the places list is exactly the first min(5, n) ranked places in ranked
\* order, each with its action list; metadata.total is the number of fetched
\* candidates and metadata.ranked is n, which exceeds the number of returned
\* places when n > 5; with a user id, the ids passed to the history log are
\* the ids of all n ranked places in ranked order.
C30_ResponseShape ==
    (Has(rqResponse) /\ Val(rqResponse).status = 200 /\ Has(rqAiResponse)
       /\ Len(Val(rqAiResponse).rankedPlaces) >= 1) =>
        LET ranked == Val(rqAiResponse).rankedPlaces
            n      == Len(ranked)
            resp   == Val(rqResponse)
        IN  /\ Len(resp.places) = (IF n < 5 THEN n ELSE 5)
            /\ \A i \in 1..Len(resp.places) :
                  /\ resp.places[i].place = ranked[i]
                  /\ resp.places[i].suggestedActions = Val(rqActions[i])
            /\ resp.metadata.total = Len(rqPlaces)
            /\ resp.metadata.ranked = n
            /\ n > 5 => resp.metadata.ranked > Len(resp.places)
            /\ IF Truthy(rqReq.userId)
               THEN rqLogged = Some([i \in 1..n |-> ranked[i].fsq_id])
               ELSE rqLogged = Undefined

\* six places were ranked for a request with a user id; five were returned
C30_Witness ==
    /\ Has(rqResponse) /\ Val(rqResponse).status = 200 /\ Has(rqAiResponse)
    /\ Len(Val(rqAiResponse).rankedPlaces) = 6
    /\ Len(Val(rqResponse).places) = 5
    /\ Truthy(rqReq.userId) /\ Has(rqLogged) /\ Len(Val(rqLogged)) = 6

====
